---- MODULE Spec2Model ----
(***************************************************************************)
(* NYU TinyLev driver (Teensy 4.0 sketch nyutinylev_simple.ino).           *)
(*                                                                         *)
(* The sketch programs four FlexPWM pins (two H-bridges), ORs the          *)
(* "invert channel B" bit into two output-control registers, prints the    *)
(* eight SMxOCTRL registers before and after, and then blinks the LED      *)
(* from loop().                                                            *)
(*                                                                         *)
(* Two specifications share the same state and the same translated         *)
(* functions:                                                              *)
(*   Spec     the sketch as it runs: setup() statement by statement, then  *)
(*            loop() forever;                                              *)
(*   SpecAPI  the sketch's functions called in any order with any          *)
(*            argument of a small input set (the "any sequence of calls"   *)
(*            the specification speaks of).                                *)
(* LiveSpec is Spec with the scheduling assumption that loop() keeps       *)
(* being called.                                                           *)
(* SpecPins is Spec for the sketch built with other values of its four    *)
(* pin constants.                                                          *)
(***************************************************************************)
EXTENDS Integers, Sequences, FiniteSets

(***************************************************************************)
(* Program constants                                                       *)
(***************************************************************************)
FREQUENCY == 40000

PWMRES == 8

PWMSTEPS == 256

INVERTB == 512

upperA == 2

upperB == 3

lowerA == 6

lowerB == 9

blinkDuration == 500

SetupDelay == 100

Pins == {upperA, upperB, lowerA, lowerB}

\* The output-control registers the sketch reads, in the order it prints them.
RegOrder ==
    << "FLEXPWM2_SM0OCTRL", "FLEXPWM2_SM1OCTRL", "FLEXPWM2_SM2OCTRL", "FLEXPWM2_SM3OCTRL",
       "FLEXPWM4_SM0OCTRL", "FLEXPWM4_SM1OCTRL", "FLEXPWM4_SM2OCTRL", "FLEXPWM4_SM3OCTRL" >>

Regs == { RegOrder[i] : i \in 1..Len(RegOrder) }

\* The pins of the table of suitable pairs in the sketch's header comment.
AllPins == {2, 3, 6, 9, 7, 8}

\* The register of the submodule that owns a pin (the same table: 2 and 3 are
\* FlexPWM4_2A/B, 6 and 9 FlexPWM2_2A/B, 7 and 8 FlexPWM1_3B/A).
SubmoduleOf(pin) ==
    CASE pin \in {2, 3} -> "FLEXPWM4_SM2OCTRL"
      [] pin \in {6, 9} -> "FLEXPWM2_SM2OCTRL"
      [] pin \in {7, 8} -> "FLEXPWM1_SM3OCTRL"

\* The values the four pin constants have in the sketch.
SourceWiring == [p \in Pins |-> p]

\* Values of the pin constants that SpecPins tries ("choose the pins that we will
\* use"): the sketch's, upperB moved to pin 8 (a pin of another submodule), and
\* the upper bridge moved to the pair 8/7.
Wirings ==
    { SourceWiring,
      [SourceWiring EXCEPT ![upperB] = 8],
      [SourceWiring EXCEPT ![upperA] = 8, ![upperB] = 7] }

\* The two bridges: their pin constants and the register setAmp inverts for them.
Bridges ==
    { [a |-> upperA, b |-> upperB, reg |-> "FLEXPWM4_SM2OCTRL"],
      [a |-> lowerA, b |-> lowerB, reg |-> "FLEXPWM2_SM2OCTRL"] }

(***************************************************************************)
(* Bounds of the model                                                     *)
(***************************************************************************)
\* Width of the millisecond counter in the model (unsigned long on the target).
MillisBits == 11

\* SpecAPI stops advancing the clock here.
MaxApiTime == 1200

MillisModulus == 2 ^ MillisBits

\* Time that may pass between two reads of millis() in loop().
Deltas == {100, 200, 400}

\* Time that may pass between two heartbeat calls in SpecAPI (0: same millisecond).
ApiDeltas == {0, 100, 200, 400}

\* Arguments tried for setAmp: the ends of the valid range, the startup value, and
\* two values past PWMSTEPS-1.
Amps == {0, 127, 255, 256, 300}

\* Arguments tried for setFreq.
Freqs == {0 - FREQUENCY, 0, FREQUENCY}

\* Register files at power-on that the model tries: the reset value 0 everywhere,
\* and a file with a different value in each register (other bits set, the
\* inversion bit clear).
PowerOnRegs ==
    { [r \in Regs |-> 0],
      [r \in Regs |-> (CHOOSE i \in 1..Len(RegOrder) : RegOrder[i] = r) * 4101] }

(***************************************************************************)
(* State                                                                   *)
(***************************************************************************)
VARIABLES
    pc,         \* position of the sketch: in setup(), in loop(), or "api" (SpecAPI)
    analogRes,  \* resolution given to analogWriteRes; 0 while it was never called
    freq,       \* frequency last given to analogWriteFrequency, per pin (0: never)
    duty,       \* value last given to analogWrite, per pin
    octrl,      \* the SMxOCTRL registers
    lastBlink,  \* unsigned long lastBlink
    ledState,   \* int ledState (LOW = 0, HIGH = 1)
    ledOut,     \* level last written to ledPin
    now,        \* millis()
    report,     \* the last register dump printed: eight %04X fields, <<>> before any
    log,        \* hardware writes of setup(), in order
    lastCall,   \* the call that made the last step, with its argument
    repeated,   \* the last step made the same call as the step before it
    toggledAt,  \* millis() when the LED level last changed (0: never)
    armed,      \* a setAmp call has completed
    wiring      \* the value of each pin constant (keyed by its value in the sketch)

hw == <<analogRes, freq, duty, octrl>>

heart == <<lastBlink, ledState, ledOut, toggledAt>>

vars == <<pc, analogRes, freq, duty, octrl, lastBlink, ledState, ledOut, now,
          report, log, lastCall, repeated, toggledAt, armed, wiring>>

(***************************************************************************)
(* Arithmetic of the target                                                *)
(***************************************************************************)
\* Bitwise OR of two 16-bit values.
RECURSIVE BitOrN(_, _, _)
BitOrN(a, b, n) ==
    IF n = 0 THEN 0
    ELSE (IF a % 2 = 1 \/ b % 2 = 1 THEN 1 ELSE 0)
         + 2 * BitOrN(a \div 2, b \div 2, n - 1)

BitOr16(a, b) == BitOrN(a, b, 16)

\* Whether every bit of mask is set in r.
HasBits(r, mask) == BitOr16(r, mask) = r

OrAssign_Assign(r, bits) == bits

OrAssign_Add(r, bits) == (r + bits) % 65536

OrAssign_Xor(r, bits) == IF HasBits(r, bits) THEN r - bits ELSE BitOr16(r, bits)

\* r |= bits, on a 16-bit register.
OrAssign(r, bits) == BitOr16(r, bits)

HexDigits == << "0", "1", "2", "3", "4", "5", "6", "7",
                "8", "9", "A", "B", "C", "D", "E", "F" >>

\* printf("%04X", v) for a 16-bit v: four upper-case hexadecimal digits.
Hex4(v) ==
    << HexDigits[((v \div 4096) % 16) + 1], HexDigits[((v \div 256) % 16) + 1],
       HexDigits[((v \div 16) % 16) + 1], HexDigits[(v % 16) + 1] >>

\* uint16_t conversion of an argument.
ToUint16(v) == v % 65536

UnsignedSub_Wide(a, b) == a - b

\* Unsigned subtraction of two millisecond readings.
UnsignedSub(a, b) == (a - b) % MillisModulus

(***************************************************************************)
(* Hardware writes.  A function of the sketch is the list of the register  *)
(* and pin writes it makes, in program order; Exec applies one write.      *)
(***************************************************************************)
AnalogWriteRes(bits) == [op |-> "analogWriteRes", pin |-> 0, reg |-> "", val |-> bits]

AnalogWriteFrequency(p, f) == [op |-> "analogWriteFrequency", pin |-> p, reg |-> "", val |-> f]

AnalogWrite(p, v) == [op |-> "analogWrite", pin |-> p, reg |-> "", val |-> v]

\* reg |= bits
OrInto(r, bits) == [op |-> "orInto", pin |-> 0, reg |-> r, val |-> bits]

\* The hardware state as one value.
HW == [analogRes |-> analogRes, freq |-> freq, duty |-> duty, octrl |-> octrl]

Exec(h, s) ==
    CASE s.op = "analogWriteRes" -> [h EXCEPT !.analogRes = s.val]
      [] s.op = "analogWriteFrequency" -> [h EXCEPT !.freq[wiring[s.pin]] = s.val]
      [] s.op = "analogWrite" -> [h EXCEPT !.duty[wiring[s.pin]] = s.val]
      [] s.op = "orInto" -> [h EXCEPT !.octrl[s.reg] = OrAssign(@, s.val)]

RECURSIVE RunStmts(_, _)
RunStmts(h, stmts) ==
    IF stmts = <<>> THEN h ELSE RunStmts(Exec(h, Head(stmts)), Tail(stmts))

(***************************************************************************)
(* The sketch's functions                                                  *)
(***************************************************************************)
setAmp_SkipLowerB(amp) ==
    LET a == ToUint16(amp) IN
    << AnalogWrite(upperA, a), AnalogWrite(upperB, a), AnalogWrite(lowerA, a),
       OrInto("FLEXPWM4_SM2OCTRL", INVERTB), OrInto("FLEXPWM2_SM2OCTRL", INVERTB) >>

setAmp_OneBridge(amp) ==
    LET a == ToUint16(amp) IN
    << AnalogWrite(upperA, a), AnalogWrite(upperB, a),
       AnalogWrite(lowerA, a), AnalogWrite(lowerB, a),
       OrInto("FLEXPWM4_SM2OCTRL", INVERTB) >>

setAmp_InvertFirst(amp) ==
    LET a == ToUint16(amp) IN
    << OrInto("FLEXPWM4_SM2OCTRL", INVERTB), OrInto("FLEXPWM2_SM2OCTRL", INVERTB),
       AnalogWrite(upperA, a), AnalogWrite(upperB, a),
       AnalogWrite(lowerA, a), AnalogWrite(lowerB, a) >>

\* void setAmp(uint16_t amp): the same duty on the four pins, then invert channel B
\* of both submodules.  (The Serial.printf of the amplitude changes no state.)
setAmp(amp) ==
    LET a == ToUint16(amp) IN
    << AnalogWrite(upperA, a), AnalogWrite(upperB, a),
       AnalogWrite(lowerA, a), AnalogWrite(lowerB, a),
       OrInto("FLEXPWM4_SM2OCTRL", INVERTB), OrInto("FLEXPWM2_SM2OCTRL", INVERTB) >>

setFreq_SkipLower(frq) ==
    << AnalogWriteFrequency(upperA, frq), AnalogWriteFrequency(upperB, frq) >>

\* void setFreq(float frq): the same frequency on the four pins.
setFreq(frq) ==
    << AnalogWriteFrequency(upperA, frq), AnalogWriteFrequency(upperB, frq),
       AnalogWriteFrequency(lowerA, frq), AnalogWriteFrequency(lowerB, frq) >>

showFlexPWMInit_Swapped ==
    [i \in 1..Len(RegOrder) |-> Hex4(octrl[RegOrder[((i + 3) % Len(RegOrder)) + 1]])]

\* void showFlexPWMInit(void): the text of the eight registers, FlexPWM2 then FlexPWM4.
showFlexPWMInit == [i \in 1..Len(RegOrder) |-> Hex4(octrl[RegOrder[i]])]

Not(level) == IF level = 0 THEN 1 ELSE 0

blink_NoStamp(getTime) ==
    IF UnsignedSub(getTime, lastBlink) >= blinkDuration
    THEN [lastBlink |-> lastBlink, ledState |-> Not(ledState), ledOut |-> Not(ledState)]
    ELSE [lastBlink |-> lastBlink, ledState |-> ledState, ledOut |-> ledOut]

blink_Greater(getTime) ==
    IF UnsignedSub(getTime, lastBlink) > blinkDuration
    THEN [lastBlink |-> getTime, ledState |-> Not(ledState), ledOut |-> Not(ledState)]
    ELSE [lastBlink |-> lastBlink, ledState |-> ledState, ledOut |-> ledOut]

\* void blink(void), with getTime the value millis() returned.
blink(getTime) ==
    IF UnsignedSub(getTime, lastBlink) >= blinkDuration
    THEN [lastBlink |-> getTime, ledState |-> Not(ledState), ledOut |-> Not(ledState)]
    ELSE [lastBlink |-> lastBlink, ledState |-> ledState, ledOut |-> ledOut]

(***************************************************************************)
(* Steps                                                                   *)
(***************************************************************************)
Call(name, a) == [op |-> name, arg |-> a]

\* The step is the call c.
Calls(c) ==
    /\ lastCall' = c
    /\ repeated' = (lastCall = c)
    /\ UNCHANGED wiring

\* The hardware after the writes of stmts.
Write(stmts) ==
    \E h \in {RunStmts(HW, stmts)} :
    /\ analogRes' = h.analogRes
    /\ freq' = h.freq
    /\ duty' = h.duty
    /\ octrl' = h.octrl

Tick(getTime) ==
    \E b \in {blink(getTime)} :
    /\ lastBlink' = b.lastBlink
    /\ ledState' = b.ledState
    /\ ledOut' = b.ledOut
    /\ now' = getTime
    /\ toggledAt' = IF b.ledOut # ledOut THEN getTime ELSE toggledAt

Init ==
    /\ pc = "boot"
    /\ analogRes = 0
    /\ freq = [p \in AllPins |-> 0]
    /\ duty = [p \in AllPins |-> 0]
    /\ octrl \in PowerOnRegs
    /\ lastBlink = 0
    /\ ledState = 0
    /\ ledOut = 0
    /\ now = 0
    /\ report = <<>>
    /\ log = <<>>
    /\ lastCall = Call("none", 0)
    /\ repeated = FALSE
    /\ toggledAt = 0
    /\ armed = FALSE
    /\ wiring = SourceWiring

\* setup(): pinMode, Serial.begin, delay(100).
SetupBegin ==
    /\ pc = "boot"
    /\ pc' = "res"
    /\ now' = (now + SetupDelay) % MillisModulus
    /\ Calls(Call("delay", SetupDelay))
    /\ UNCHANGED <<hw, heart, report, log, armed>>

\* setup(): analogWriteRes(PWMRES).
SetupRes ==
    /\ pc = "res"
    /\ pc' = "show1"
    /\ Write(<<AnalogWriteRes(PWMRES)>>)
    /\ log' = log \o <<AnalogWriteRes(PWMRES)>>
    /\ Calls(Call("analogWriteRes", PWMRES))
    /\ UNCHANGED <<heart, now, report, armed>>

\* setup(): "before initialization:" showFlexPWMInit().  (The statement reads
\* "s     howFlexPWMInit();" in nyutinylev_simple.ino; the older variant of the
\* sketch, which names the functions setAmplitude, setFrequency and
\* ShowFlexPWMInit, has the call intact.)
SetupShowBefore ==
    /\ pc = "show1"
    /\ pc' = "freq"
    /\ report' = showFlexPWMInit
    /\ Calls(Call("showFlexPWMInit", 0))
    /\ UNCHANGED <<hw, heart, now, log, armed>>

\* setup(): setFreq(FREQUENCY).
SetupFreq ==
    /\ pc = "freq"
    /\ pc' = "amp"
    /\ Write(setFreq(FREQUENCY))
    /\ log' = log \o setFreq(FREQUENCY)
    /\ Calls(Call("setFreq", FREQUENCY))
    /\ UNCHANGED <<heart, now, report, armed>>

\* setup(): setAmp(PWMSTEPS/2 - 1).
SetupAmp ==
    /\ pc = "amp"
    /\ pc' = "show2"
    /\ Write(setAmp((PWMSTEPS \div 2) - 1))
    /\ log' = log \o setAmp((PWMSTEPS \div 2) - 1)
    /\ Calls(Call("setAmp", (PWMSTEPS \div 2) - 1))
    /\ armed' = TRUE
    /\ UNCHANGED <<heart, now, report>>

\* setup(): "after initialization:" showFlexPWMInit().
SetupShowAfter ==
    /\ pc = "show2"
    /\ pc' = "loop"
    /\ report' = showFlexPWMInit
    /\ Calls(Call("showFlexPWMInit", 0))
    /\ UNCHANGED <<hw, heart, now, log, armed>>

\* loop(): blink(), millis() having advanced by d since it was last read.
Loop ==
    /\ pc = "loop"
    /\ \E d \in Deltas :
          /\ Tick((now + d) % MillisModulus)
          /\ Calls(Call("blink", (now + d) % MillisModulus))
    /\ UNCHANGED <<pc, hw, report, log, armed>>

Next ==
    \/ SetupBegin
    \/ SetupRes
    \/ SetupShowBefore
    \/ SetupFreq
    \/ SetupAmp
    \/ SetupShowAfter
    \/ Loop

Spec == Init /\ [][Next]_vars

\* loop() keeps being called and millis() keeps advancing.
LiveSpec == Spec /\ WF_vars(Next)

(***************************************************************************)
(* The sketch built with other pins                                        *)
(***************************************************************************)
InitPins ==
    /\ pc = "boot"
    /\ analogRes = 0
    /\ freq = [p \in AllPins |-> 0]
    /\ duty = [p \in AllPins |-> 0]
    /\ octrl \in PowerOnRegs
    /\ lastBlink = 0
    /\ ledState = 0
    /\ ledOut = 0
    /\ now = 0
    /\ report = <<>>
    /\ log = <<>>
    /\ lastCall = Call("none", 0)
    /\ repeated = FALSE
    /\ toggledAt = 0
    /\ armed = FALSE
    /\ wiring \in Wirings

SpecPins == InitPins /\ [][Next]_vars

(***************************************************************************)
(* The functions called in any order                                       *)
(***************************************************************************)
InitAPI ==
    /\ pc = "api"
    /\ analogRes = 0
    /\ freq = [p \in AllPins |-> 0]
    /\ duty = [p \in AllPins |-> 0]
    /\ octrl \in PowerOnRegs
    /\ lastBlink = 0
    /\ ledState = 0
    /\ ledOut = 0
    /\ now = 0
    /\ report = <<>>
    /\ log = <<>>
    /\ lastCall = Call("none", 0)
    /\ repeated = FALSE
    /\ toggledAt = 0
    /\ armed = FALSE
    /\ wiring = SourceWiring

CallAnalogWriteRes ==
    /\ pc = "api"
    /\ Write(<<AnalogWriteRes(PWMRES)>>)
    /\ Calls(Call("analogWriteRes", PWMRES))
    /\ UNCHANGED <<pc, heart, now, report, log, armed>>

CallSetFreq ==
    /\ pc = "api"
    /\ \E f \in Freqs :
          /\ Write(setFreq(f))
          /\ Calls(Call("setFreq", f))
    /\ UNCHANGED <<pc, heart, now, report, log, armed>>

CallSetAmp ==
    /\ pc = "api"
    /\ \E a \in Amps :
          /\ Write(setAmp(a))
          /\ Calls(Call("setAmp", a))
    /\ armed' = TRUE
    /\ UNCHANGED <<pc, heart, now, report, log>>

CallShow ==
    /\ pc = "api"
    /\ report' = showFlexPWMInit
    /\ Calls(Call("showFlexPWMInit", 0))
    /\ UNCHANGED <<pc, hw, heart, now, log, armed>>

CallBlink_WrongPin ==
    /\ pc = "api"
    /\ \E d \in ApiDeltas :
          /\ now + d <= MaxApiTime
          /\ Tick((now + d) % MillisModulus)
          /\ Calls(Call("blink", (now + d) % MillisModulus))
    /\ duty' = [duty EXCEPT ![upperA] = ledOut' * (PWMSTEPS - 1)]
    /\ UNCHANGED <<pc, analogRes, freq, octrl, report, log, armed>>

CallBlink ==
    /\ pc = "api"
    /\ \E d \in ApiDeltas :
          /\ now + d <= MaxApiTime
          /\ Tick((now + d) % MillisModulus)
          /\ Calls(Call("blink", (now + d) % MillisModulus))
    /\ UNCHANGED <<pc, hw, report, log, armed>>

NextAPI ==
    \/ CallAnalogWriteRes
    \/ CallSetFreq
    \/ CallSetAmp
    \/ CallShow
    \/ CallBlink

SpecAPI == InitAPI /\ [][NextAPI]_vars

(***************************************************************************)
(* Properties                                                              *)
(***************************************************************************)
\* The inversion bit of a register value, read without the OR of the model.
InvertBSet(r) == (r \div INVERTB) % 2 = 1

BothInverted ==
    /\ InvertBSet(octrl["FLEXPWM4_SM2OCTRL"])
    /\ InvertBSet(octrl["FLEXPWM2_SM2OCTRL"])

ValidDuty(d) == d \in 0..(PWMSTEPS - 1)

\* C1: once a setAmp call has completed, in every state reached by any further
\* setFreq, setAmp, showFlexPWMInit and blink calls the channel-B inversion bit
\* 0x0200 is set in FLEXPWM4_SM2OCTRL and in FLEXPWM2_SM2OCTRL; no call clears it.
C1_ArmedStaysInverted == armed => BothInverted

C1_Witness ==
    /\ armed
    /\ lastCall.op = "blink"
    /\ ledState = 1
    /\ report # <<>>
    /\ \A p \in Pins : freq[p] = FREQUENCY /\ duty[p] = 255

\* C2: after setAmp(d) with d in 0..PWMSTEPS-1 the four pins hold duty d and the
\* inversion bit is set in both registers, whatever the state before the call.
C2_SetAmpPostcondition ==
    (lastCall.op = "setAmp" /\ ValidDuty(lastCall.arg))
        => /\ \A p \in Pins : duty[p] = lastCall.arg
           /\ BothInverted

C2_Witness ==
    /\ lastCall = Call("setAmp", 255)
    /\ \A p \in Pins : duty[p] = 255
    /\ analogRes = 0
    /\ octrl["FLEXPWM2_SM2OCTRL"] = 12303 + INVERTB

\* C3: after setFreq(f) with f > 0 the four pins (both submodules) carry f, and in
\* every state between calls the upper and the lower bridge carry equal frequency
\* and equal duty.
C3_BridgesInLockStep ==
    /\ (lastCall.op = "setFreq" /\ lastCall.arg > 0)
          => \A p \in Pins : freq[p] = lastCall.arg
    /\ freq[upperA] = freq[lowerA]
    /\ freq[upperB] = freq[lowerB]
    /\ duty[upperA] = duty[lowerA]
    /\ duty[upperB] = duty[lowerB]

C3_Witness ==
    /\ lastCall = Call("setFreq", FREQUENCY)
    /\ \A p \in Pins : freq[p] = FREQUENCY /\ duty[p] = 127

\* Position of the first write of the log that satisfies Is; 0 when there is none.
FirstIndex(Is(_)) ==
    IF \E i \in 1..Len(log) : Is(log[i])
    THEN CHOOSE i \in 1..Len(log) : Is(log[i]) /\ \A j \in 1..(i - 1) : ~Is(log[j])
    ELSE 0

\* C4: in setup() the resolution is configured before any duty is written, the
\* frequency of each of the four pins is set before any duty is written, and the
\* inversion bit of a submodule is set only after the duty of both of its pins
\* was written; once setup() is through, all of these writes have been made.
C4_StartupOrder ==
    LET IsRes(e) == e.op = "analogWriteRes"
        IsDuty(e) == e.op = "analogWrite"
        firstDuty == FirstIndex(IsDuty)
    IN
    /\ \A i \in 1..Len(log) :
          /\ IsDuty(log[i]) =>
                /\ \E j \in 1..(i - 1) : IsRes(log[j])
                /\ \A p \in Pins : \E j \in 1..(i - 1) :
                      log[j].op = "analogWriteFrequency" /\ log[j].pin = p
          /\ log[i].op = "orInto" =>
                \A p \in Pins : SubmoduleOf(p) = log[i].reg =>
                   \E j \in 1..(i - 1) : IsDuty(log[j]) /\ log[j].pin = p
    /\ pc \in {"show2", "loop"} =>
          /\ firstDuty > 0
          /\ \A r \in {"FLEXPWM4_SM2OCTRL", "FLEXPWM2_SM2OCTRL"} :
                \E i \in 1..Len(log) :
                   log[i].op = "orInto" /\ log[i].reg = r /\ log[i].val = INVERTB

C4_Witness ==
    /\ pc = "loop"
    /\ Len(log) = 11
    /\ log[1].op = "analogWriteRes"
    /\ log[11] = OrInto("FLEXPWM2_SM2OCTRL", INVERTB)
    /\ BothInverted

\* C5: setAmp with a duty outside 0..PWMSTEPS-1 is rejected: it leaves the duty of
\* the four pins, the frequencies and the control registers as they were.
C5_OutOfRangeRejected ==
    [][(lastCall'.op = "setAmp" /\ ~ValidDuty(lastCall'.arg))
          => UNCHANGED <<duty, freq, octrl>>]_vars

\* C6: setAmp before analogWriteRes was ever called fails: it writes no duty and
\* no control register.
C6_UninitializedRejected ==
    [][(lastCall'.op = "setAmp" /\ analogRes = 0)
          => UNCHANGED <<duty, octrl>>]_vars

\* C7: setFreq with hz <= 0 is rejected: it leaves the frequency and the duty of
\* the four pins and the control registers as they were.
C7_NonPositiveFrequencyRejected ==
    [][(lastCall'.op = "setFreq" /\ lastCall'.arg <= 0)
          => UNCHANGED <<freq, duty, octrl>>]_vars

\* C8: setting the inversion bit is idempotent: on every register value, setting
\* it twice gives what setting it once gives, which is the value with bit 0x0200
\* set and the other bits kept; and a setAmp that repeats the call before it
\* leaves the whole hardware state as that call left it.
C8_InvertIdempotent ==
    /\ \A r \in 0..65535 :
          LET once == OrAssign(r, INVERTB) IN
          /\ OrAssign(once, INVERTB) = once
          /\ once = (IF InvertBSet(r) THEN r ELSE r + INVERTB)
    /\ [](\A r \in Regs :
             LET once == OrAssign(octrl[r], INVERTB) IN
             /\ OrAssign(once, INVERTB) = once
             /\ once = (IF InvertBSet(octrl[r]) THEN octrl[r] ELSE octrl[r] + INVERTB))
    /\ [][(lastCall'.op = "setAmp" /\ repeated') => UNCHANGED hw]_vars

C8_Witness ==
    /\ lastCall = Call("setAmp", 127)
    /\ repeated
    /\ octrl["FLEXPWM4_SM2OCTRL"] = 28707 + INVERTB
    /\ \A p \in Pins : duty[p] = 127

\* C9: a blink call at time t toggles the level and records t as lastBlink if and
\* only if t - lastBlink >= blinkDuration; otherwise level and lastBlink stay.
\* From lastBlink = 0, calls at 0 and 400 change nothing and a call at 600 toggles.
C9_TickTogglesIffElapsed ==
    [][lastCall'.op = "blink" =>
          IF lastCall'.arg - lastBlink >= blinkDuration
          THEN /\ ledState' = 1 - ledState
               /\ ledOut' = ledState'
               /\ lastBlink' = lastCall'.arg
          ELSE UNCHANGED <<ledState, ledOut, lastBlink>>]_vars

C9_Witness ==
    /\ lastCall = Call("blink", 600)
    /\ lastBlink = 600
    /\ ledState = 1
    /\ toggledAt = 600

\* Milliseconds from reading a to reading b of the wrapping counter.
Elapsed(a, b) == IF b >= a THEN b - a ELSE b - a + MillisModulus

\* C10: with loop() scheduled forever and time advancing, the LED level toggles
\* infinitely often, and two consecutive toggles are at least blinkDuration apart.
C10_HeartbeatForever ==
    /\ []<>(pc = "loop" /\ ledState = 1)
    /\ []<>(pc = "loop" /\ ledState = 0)
    /\ [][ledOut' # ledOut => Elapsed(toggledAt, now') >= blinkDuration]_vars

C10_Witness ==
    /\ pc = "loop"
    /\ ledState = 0
    /\ lastBlink >= 2 * blinkDuration
    /\ toggledAt = lastBlink
    /\ lastCall.op = "blink"

\* C11: blink leaves the resolution, the frequency and duty of the four pins and
\* every control register as they were, whether it toggles or not; setFreq and
\* setAmp leave the LED level and lastBlink as they were.
C11_HeartbeatIndependent ==
    [][/\ lastCall'.op = "blink" => UNCHANGED <<analogRes, freq, duty, octrl>>
       /\ lastCall'.op \in {"setFreq", "setAmp"}
             => UNCHANGED <<ledState, ledOut, lastBlink>>]_vars

C11_Witness ==
    /\ lastCall.op = "blink"
    /\ toggledAt = now
    /\ ledState = 1
    /\ armed
    /\ \A p \in Pins : duty[p] = 127 /\ freq[p] = FREQUENCY

\* The value of a hexadecimal digit, and of a four-digit field.
HexVal(d) == CHOOSE v \in 0..15 : HexDigits[v + 1] = d

Parse4(t) == 4096 * HexVal(t[1]) + 256 * HexVal(t[2]) + 16 * HexVal(t[3]) + HexVal(t[4])

IndexOf(r) == CHOOSE i \in 1..Len(RegOrder) : RegOrder[i] = r

\* C12: showFlexPWMInit is a pure read: it leaves every control register, the
\* frequency and duty of the pins and the heartbeat state as they were, and the
\* eight fields it prints are the current values of the eight registers.
C12_DumpIsPureRead ==
    [][lastCall'.op = "showFlexPWMInit" =>
          /\ UNCHANGED <<analogRes, freq, duty, octrl, lastBlink, ledState, ledOut>>
          /\ Len(report') = Len(RegOrder)
          /\ \A i \in 1..Len(RegOrder) :
                /\ Len(report'[i]) = 4
                /\ Parse4(report'[i]) = octrl[RegOrder[i]]]_vars

C12_Witness ==
    /\ lastCall.op = "showFlexPWMInit"
    /\ armed
    /\ report[IndexOf("FLEXPWM4_SM2OCTRL")] = <<"7", "2", "2", "3">>
    /\ report[IndexOf("FLEXPWM2_SM0OCTRL")] = <<"1", "0", "0", "5">>

\* The last report shows the inversion bit in the field of register r.
ReportShowsInverted(r) == InvertBSet(Parse4(report[IndexOf(r)]))

ClearInvertB(r) == IF InvertBSet(r) THEN r - INVERTB ELSE r

\* C15: setAmp changes only bit 0x0200 of FLEXPWM4_SM2OCTRL and FLEXPWM2_SM2OCTRL:
\* their other bits and the six other control registers keep their value;
\* setFreq changes no control register and no duty.
C15_OnlyInvertBitChanges ==
    [][/\ lastCall'.op = "setAmp" =>
             \A r \in Regs :
                IF r \in {"FLEXPWM4_SM2OCTRL", "FLEXPWM2_SM2OCTRL"}
                THEN ClearInvertB(octrl'[r]) = ClearInvertB(octrl[r])
                ELSE octrl'[r] = octrl[r]
       /\ lastCall'.op = "setFreq" => UNCHANGED <<octrl, duty>>]_vars

C15_Witness ==
    /\ lastCall = Call("setAmp", 255)
    /\ ~repeated
    /\ octrl["FLEXPWM4_SM2OCTRL"] = 28707 + INVERTB
    /\ octrl["FLEXPWM2_SM2OCTRL"] = 12303 + INVERTB
    /\ octrl["FLEXPWM4_SM3OCTRL"] = 32808
    /\ octrl["FLEXPWM2_SM0OCTRL"] = 4101

\* C16: the elapsed-time test is unsigned arithmetic modulo 2^MillisBits: across
\* a wrap of millis() to 0, blink toggles exactly when at least blinkDuration
\* milliseconds have elapsed since the last toggle, neither earlier nor never.
C16_ToggleAcrossWrap ==
    [][lastCall'.op = "blink" =>
          ((ledOut' # ledOut) <=> (Elapsed(toggledAt, now') >= blinkDuration))]_vars

C16_Witness ==
    /\ pc = "loop"
    /\ lastCall.op = "blink"
    /\ now < blinkDuration
    /\ lastBlink = now
    /\ toggledAt = now
    /\ ledState = 1

\* Both pins of a bridge are on one submodule.
Paired(br) == SubmoduleOf(wiring[br.a]) = SubmoduleOf(wiring[br.b])

====
